---- MODULE Spec2Model ----
(***************************************************************************)
(* State-machine model of the PredictionLogger contract                    *)
(* (CryptoPredictor/contracts/hardhat/scripts/deploy-prediction-logger.js, *)
(* the Solidity part from line 76 on) and of the API server in front of it *)
(* (CryptoPredictor/api: routes and services/blockchain.js).               *)
(*                                                                         *)
(* A transaction that reverts leaves the storage untouched (EVM revert);   *)
(* the only trace it leaves in the model is lastCall, the receipt read by  *)
(* its sender before the next transaction.  Revert reasons are abbreviated:*)
(*   "SystemPaused"    Pausable: EnforcedPause                             *)
(*   "ExpectedPause"   Pausable: ExpectedPause                             *)
(*   "EmptyCrypto"     "Cryptocurrency cannot be empty"                    *)
(*   "BadCurrentPrice" "Current price must be greater than 0"              *)
(*   "BadPredictedPrice" "Predicted price must be greater than 0"          *)
(*   "PastTarget"      "Target timestamp must be in the future"            *)
(*   "EmptyModel"      "Model type cannot be empty"                        *)
(*   "NotFound"        "Prediction does not exist"                         *)
(*   "AlreadyResolved" "Prediction already resolved"                       *)
(*   "Unauthorized"    "Not authorized to resolve prediction" /            *)
(*                     AccessControlUnauthorizedAccount                    *)
(*   "BadActualPrice"  "Actual price must be greater than 0"               *)
(*   "TooEarly"        "Cannot resolve before target timestamp"            *)
(*   "BadThreshold"    "Threshold cannot exceed 100%"                      *)
(*   "Panic"           arithmetic panic of checked uint256 arithmetic      *)
(***************************************************************************)
EXTENDS Integers, Sequences, FiniteSets, TLC

----------------------------------------------------------------------------
(* Bounds of the model *)

\* largest value of the unsigned integer type (uint256 scaled down)
UintMax == 1000000000

\* number of predictions the model lets the ledger store
MaxPredictions == 2

\* block.timestamp ranges over 1..MaxTime
MaxTime == 2

\* calculateAccuracy is applied to every pair of 1..MaxCalcInput
MaxCalcInput == 12

----------------------------------------------------------------------------
(* Program constants *)

BASIS_POINTS == 10000

DefaultAccuracyThreshold == 500

----------------------------------------------------------------------------
(* Input sets *)

Addrs == {"owner", "user1", "user2"}

\* msg.sender of the deployment transaction
Deployer == "owner"

\* accounts that send the admin functions: the admin and a non-admin
AdminCallers == {"owner", "user1"}

\* accounts the admin grants the oracle role to or revokes it from
OracleCandidates == {"user2"}

Cryptos == {"", "BTC", "ETH"}

ModelTypes == {"", "LSTM", "RF"}

Arg(sender, cryptocurrency, currentPrice, predictedPrice, modelType) ==
    [sender |-> sender, cryptocurrency |-> cryptocurrency,
     currentPrice |-> currentPrice, predictedPrice |-> predictedPrice,
     modelType |-> modelType]

\* makePrediction calls that pass every require on the arguments other than
\* targetTimestamp: two accounts, two assets, two model types
ValidInputs ==
    {Arg("user1", "BTC", 50000, 55000, "LSTM"),
     Arg("user1", "ETH", 50000, 55000, "RF"),
     Arg("user2", "BTC", 50000, 55000, "LSTM")}

\* makePrediction calls that violate one or several requires
InvalidInputs ==
    {Arg("user1", "", 50000, 55000, "LSTM"), Arg("user1", "BTC", 0, 55000, "LSTM"),
     Arg("user1", "BTC", 50000, 0, "LSTM"), Arg("user2", "BTC", 50000, 55000, ""),
     Arg("user2", "", 0, 0, ""), Arg("user2", "BTC", 0, 0, ""),
     Arg("user1", "BTC", 50000, 0, "")}

SubmitInputs == ValidInputs \cup InvalidInputs

\* actualPrice arguments of resolvePrediction
ActualPrices == {0, 54000, UintMax}

\* newThreshold arguments of setAccuracyThreshold
Thresholds == {100, 500, 10001}

\* targetTimestamp arguments of makePrediction, relative to block.timestamp:
\* a past target, the present, a future target
TargetOffsets == {-1, 0, 1}

AdditionalDatas == {"{}"}

\* prediction ids a caller can name: 0, the stored ones, one beyond
Ids == 0..(MaxPredictions + 1)

\* the positive prices given to calculateAccuracy
CalcInputs == (1..MaxCalcInput) \cup {25000, 45000, 50000, 54000, 55000, UintMax}

----------------------------------------------------------------------------
VARIABLES
    predictions,          \* mapping(uint256 => Prediction)
    userStats,            \* mapping(address => UserStats), the three counters
    modelTypeCount,       \* userStats[u].modelTypeCount
    cryptoCount,          \* userStats[u].cryptoCount
    userPredictions,      \* mapping(address => uint256[])
    modelPerformance,     \* mapping(string => ModelPerformance)
    cryptoPredictions,    \* mapping(string => uint256[])
    modelTypePredictions, \* mapping(string => uint256[])
    predictionCounter,
    accuracyThreshold,
    paused,               \* Pausable._paused
    oracleRole,           \* accounts holding ORACLE_ROLE
    adminRole,            \* accounts holding ADMIN_ROLE
    now,                  \* block.timestamp
    submitCount,          \* number of makePrediction calls that returned
    lastCall,             \* outcome of the last transaction or call
    request               \* the admin request the API server is handling

ledger == <<predictions, userStats, modelTypeCount, cryptoCount, userPredictions,
            modelPerformance, cryptoPredictions, modelTypePredictions,
            predictionCounter>>

config == <<accuracyThreshold, paused, oracleRole, adminRole>>

vars == <<predictions, userStats, modelTypeCount, cryptoCount, userPredictions,
          modelPerformance, cryptoPredictions, modelTypePredictions,
          predictionCounter, accuracyThreshold, paused, oracleRole, adminRole,
          now, submitCount, lastCall, request>>

----------------------------------------------------------------------------
(* Storage defaults: every slot of a Solidity mapping reads as zero *)

NoAddr == "0x0"

ZeroPrediction ==
    [id |-> 0, predictor |-> NoAddr, cryptocurrency |-> "", currentPrice |-> 0,
     predictedPrice |-> 0, predictionTimestamp |-> 0, targetTimestamp |-> 0,
     modelType |-> "", isResolved |-> FALSE, actualPrice |-> 0,
     wasAccurate |-> FALSE, accuracyPercentage |-> 0, additionalData |-> ""]

ZeroStats ==
    [totalPredictions |-> 0, accuratePredictions |-> 0, totalAccuracyScore |-> 0]

NoCall ==
    [op |-> "none", sender |-> NoAddr, key |-> "", id |-> 0, x |-> 0, y |-> 0,
     err |-> "ok", ret |-> 0]

\* outcome of a call: its revert reason or, when it returned, its sender, the
\* prediction id it wrote and its return value
Call(op, sender, id, err, ret) ==
    [op |-> op, sender |-> sender, key |-> "", id |-> id, x |-> 0, y |-> 0,
     err |-> err, ret |-> ret]

\* req.query of a read route without any filter
NoQuery ==
    [resolved |-> "", crypto |-> "", modelType |-> "", user |-> "",
     timeframe |-> ""]

\* no request is being handled; a request that passed the middleware holds
\* its x-admin-key, its body and, for bulk-resolve, the entries still to
\* process and the two reports built so far; a read route holds its query
\* and what it has read so far
NoRequest ==
    [op |-> "none", key |-> "", threshold |-> 0, address |-> NoAddr,
     predictions |-> <<>>, rest |-> <<>>, results |-> <<>>, errors |-> <<>>,
     query |-> NoQuery]

\* transactions are mined one at a time: no receipt is waiting to be read
Idle == lastCall = NoCall

----------------------------------------------------------------------------
(* Checked uint arithmetic *)

MulOverflows(a, b) == b # 0 /\ a > UintMax \div b

----------------------------------------------------------------------------
(* calculateAccuracy *)

difference(predictedPrice, actualPrice) ==
    IF predictedPrice > actualPrice
    THEN predictedPrice - actualPrice
    ELSE actualPrice - predictedPrice

\* the call panics: the product overflows, or the division is by zero
calculateAccuracyPanics(predictedPrice, actualPrice) ==
    /\ predictedPrice # actualPrice
    /\ \/ MulOverflows(difference(predictedPrice, actualPrice), BASIS_POINTS)
       \/ actualPrice = 0

percentageDifference_ofPredicted(predictedPrice, actualPrice) ==
    (difference(predictedPrice, actualPrice) * BASIS_POINTS) \div predictedPrice

percentageDifference(predictedPrice, actualPrice) ==
    (difference(predictedPrice, actualPrice) * BASIS_POINTS) \div actualPrice

calculateAccuracy(predictedPrice, actualPrice) ==
    IF predictedPrice = actualPrice
    THEN BASIS_POINTS
    ELSE IF percentageDifference(predictedPrice, actualPrice) >= BASIS_POINTS
         THEN 0
         ELSE BASIS_POINTS - percentageDifference(predictedPrice, actualPrice)

----------------------------------------------------------------------------
(* Modifiers and requires, in the order the code evaluates them *)

whenNotPaused_off == TRUE

\* Pausable.whenNotPaused, the modifier of makePrediction
whenNotPaused == ~paused

predictionExists(predictionId) ==
    predictionId > 0 /\ predictionId <= predictionCounter

notResolved_off(predictionId) == TRUE

notResolved(predictionId) == ~predictions[predictionId].isResolved

hasOracleRole(account) == account \in oracleRole

hasAdminRole_anyone(account) == TRUE

\* onlyRole(ADMIN_ROLE)
hasAdminRole(account) == account \in adminRole

mayResolve_anyone(sender, predictionId) == TRUE

\* the first require of resolvePrediction
mayResolve(sender, predictionId) ==
    hasOracleRole(sender) \/ predictions[predictionId].predictor = sender

targetReached_strict(predictionId) ==
    now > predictions[predictionId].targetTimestamp

\* the third require of resolvePrediction
targetReached(predictionId) ==
    now >= predictions[predictionId].targetTimestamp

\* the number of requires of makePrediction that the arguments violate
violated(cryptocurrency, currentPrice, predictedPrice, targetTimestamp, modelType) ==
    (IF cryptocurrency = "" THEN 1 ELSE 0) + (IF currentPrice > 0 THEN 0 ELSE 1)
    + (IF predictedPrice > 0 THEN 0 ELSE 1) + (IF targetTimestamp > now THEN 0 ELSE 1)
    + (IF modelType = "" THEN 1 ELSE 0)

inFuture_orNow(targetTimestamp) == targetTimestamp >= now

\* require(targetTimestamp > block.timestamp)
inFuture(targetTimestamp) == targetTimestamp > now

makePredictionError_modelFirst(cryptocurrency, currentPrice, predictedPrice, targetTimestamp, modelType) ==
    IF ~whenNotPaused THEN "SystemPaused"
    ELSE IF modelType = "" THEN "EmptyModel"
    ELSE IF cryptocurrency = "" THEN "EmptyCrypto"
    ELSE IF ~(currentPrice > 0) THEN "BadCurrentPrice"
    ELSE IF ~(predictedPrice > 0) THEN "BadPredictedPrice"
    ELSE IF ~inFuture(targetTimestamp) THEN "PastTarget"
    ELSE "ok"

makePredictionError(cryptocurrency, currentPrice, predictedPrice, targetTimestamp, modelType) ==
    IF ~whenNotPaused THEN "SystemPaused"
    ELSE IF cryptocurrency = "" THEN "EmptyCrypto"
    ELSE IF ~(currentPrice > 0) THEN "BadCurrentPrice"
    ELSE IF ~(predictedPrice > 0) THEN "BadPredictedPrice"
    ELSE IF ~inFuture(targetTimestamp) THEN "PastTarget"
    ELSE IF modelType = "" THEN "EmptyModel"
    ELSE "ok"

resolvePredictionError_authFirst(sender, predictionId, actualPrice) ==
    IF ~predictionExists(predictionId) THEN "NotFound"
    ELSE IF ~mayResolve(sender, predictionId) THEN "Unauthorized"
    ELSE IF ~notResolved(predictionId) THEN "AlreadyResolved"
    ELSE IF ~targetReached(predictionId) THEN "TooEarly"
    ELSE IF ~(actualPrice > 0) THEN "BadActualPrice"
    ELSE IF calculateAccuracyPanics(predictions[predictionId].predictedPrice, actualPrice)
         THEN "Panic"
    ELSE "ok"

resolvePredictionError(sender, predictionId, actualPrice) ==
    IF ~predictionExists(predictionId) THEN "NotFound"
    ELSE IF ~notResolved(predictionId) THEN "AlreadyResolved"
    ELSE IF ~mayResolve(sender, predictionId) THEN "Unauthorized"
    ELSE IF ~(actualPrice > 0) THEN "BadActualPrice"
    ELSE IF ~targetReached(predictionId) THEN "TooEarly"
    ELSE IF calculateAccuracyPanics(predictions[predictionId].predictedPrice, actualPrice)
         THEN "Panic"
    ELSE "ok"

----------------------------------------------------------------------------
Init ==
    /\ predictions = [i \in Ids |-> ZeroPrediction]
    /\ userStats = [u \in Addrs |-> ZeroStats]
    /\ modelTypeCount = [u \in Addrs |-> [m \in ModelTypes |-> 0]]
    /\ cryptoCount = [u \in Addrs |-> [c \in Cryptos |-> 0]]
    /\ userPredictions = [u \in Addrs |-> <<>>]
    /\ modelPerformance = [m \in ModelTypes |-> ZeroStats]
    /\ cryptoPredictions = [c \in Cryptos |-> <<>>]
    /\ modelTypePredictions = [m \in ModelTypes |-> <<>>]
    /\ predictionCounter = 0
    /\ accuracyThreshold = DefaultAccuracyThreshold
    /\ paused = FALSE
    /\ oracleRole = {Deployer}
    /\ adminRole = {Deployer}
    /\ now = 1
    /\ submitCount = 0
    /\ lastCall = NoCall
    /\ request = NoRequest

----------------------------------------------------------------------------
(* makePrediction *)

assignedId_stale(counter) == counter

\* predictionCounter++; predictionId = predictionCounter
assignedId(counter) == counter + 1

push_front(array, value) == <<value>> \o array

\* array.push(value)
push(array, value) == Append(array, value)

makePrediction(sender, cryptocurrency, currentPrice, predictedPrice, targetTimestamp, modelType, additionalData) ==
    LET err == makePredictionError(cryptocurrency, currentPrice, predictedPrice,
                                   targetTimestamp, modelType)
        predictionId == assignedId(predictionCounter)
    IN
    /\ (err = "ok") => (predictionCounter < MaxPredictions)
    /\ IF err # "ok"
       THEN /\ lastCall' = [Call("makePrediction", NoAddr, 0, err, 0) EXCEPT
                               !.x = violated(cryptocurrency, currentPrice,
                                              predictedPrice, targetTimestamp,
                                              modelType)]
            /\ UNCHANGED <<ledger, submitCount>>
       ELSE /\ predictionCounter' = predictionCounter + 1
            /\ predictions' = [predictions EXCEPT ![predictionId] =
                   [id |-> predictionId,
                    predictor |-> sender,
                    cryptocurrency |-> cryptocurrency,
                    currentPrice |-> currentPrice,
                    predictedPrice |-> predictedPrice,
                    predictionTimestamp |-> now,
                    targetTimestamp |-> targetTimestamp,
                    modelType |-> modelType,
                    isResolved |-> FALSE,
                    actualPrice |-> 0,
                    wasAccurate |-> FALSE,
                    accuracyPercentage |-> 0,
                    additionalData |-> additionalData]]
            /\ userStats' = [userStats EXCEPT ![sender].totalPredictions = @ + 1]
            /\ modelTypeCount' = [modelTypeCount EXCEPT ![sender][modelType] = @ + 1]
            /\ cryptoCount' = [cryptoCount EXCEPT ![sender][cryptocurrency] = @ + 1]
            /\ userPredictions' =
                   [userPredictions EXCEPT ![sender] = push(@, predictionId)]
            /\ cryptoPredictions' =
                   [cryptoPredictions EXCEPT ![cryptocurrency] = push(@, predictionId)]
            /\ modelTypePredictions' =
                   [modelTypePredictions EXCEPT ![modelType] = push(@, predictionId)]
            /\ modelPerformance' =
                   [modelPerformance EXCEPT ![modelType].totalPredictions = @ + 1]
            /\ submitCount' = submitCount + 1
            /\ lastCall' = Call("makePrediction", sender, predictionId, "ok", predictionId)
    /\ UNCHANGED <<config, now>>

MakePrediction ==
    /\ Idle
    /\ UNCHANGED request
    /\ \E in \in SubmitInputs,
          offset \in TargetOffsets, additionalData \in AdditionalDatas :
          makePrediction(in.sender, in.cryptocurrency, in.currentPrice,
                         in.predictedPrice, now + offset, in.modelType,
                         additionalData)

----------------------------------------------------------------------------
(* resolvePrediction *)

isAccurate_raw(accuracyPercentage, threshold) == accuracyPercentage >= threshold

\* accuracyPercentage >= (BASIS_POINTS - accuracyThreshold)
isAccurate(accuracyPercentage, threshold) ==
    accuracyPercentage >= (BASIS_POINTS - threshold)

statsOwner_sender(prediction, sender) == sender

\* UserStats storage stats = userStats[prediction.predictor]
statsOwner(prediction, sender) == prediction.predictor

storedActualPrice_unset(actualPrice) == 0

\* prediction.actualPrice = actualPrice
storedActualPrice(actualPrice) == actualPrice

performanceOf_first(prediction) == "LSTM"

\* ModelPerformance storage modelPerf = modelPerformance[prediction.modelType]
performanceOf(prediction) == prediction.modelType

resolvePrediction(sender, predictionId, actualPrice) ==
    LET err == resolvePredictionError(sender, predictionId, actualPrice)
        prediction == predictions[predictionId]
        accuracyPercentage == calculateAccuracy(prediction.predictedPrice, actualPrice)
        wasAccurate == isAccurate(accuracyPercentage, accuracyThreshold)
    IN
    /\ IF err # "ok"
       THEN /\ lastCall' = Call("resolvePrediction", NoAddr, 0, err, 0)
            /\ UNCHANGED ledger
       ELSE /\ predictions' = [predictions EXCEPT ![predictionId] =
                   [@ EXCEPT !.actualPrice = storedActualPrice(actualPrice),
                             !.isResolved = TRUE,
                             !.accuracyPercentage = accuracyPercentage,
                             !.wasAccurate = wasAccurate]]
            /\ userStats' = [userStats EXCEPT ![statsOwner(prediction, sender)] =
                   [@ EXCEPT !.accuratePredictions =
                                 IF wasAccurate THEN @ + 1 ELSE @,
                             !.totalAccuracyScore = @ + accuracyPercentage]]
            /\ modelPerformance' = [modelPerformance EXCEPT ![performanceOf(prediction)] =
                   [@ EXCEPT !.accuratePredictions =
                                 IF wasAccurate THEN @ + 1 ELSE @,
                             !.totalAccuracyScore = @ + accuracyPercentage]]
            /\ lastCall' = Call("resolvePrediction", sender, predictionId, "ok", 0)
            /\ UNCHANGED <<modelTypeCount, cryptoCount, userPredictions,
                           cryptoPredictions, modelTypePredictions,
                           predictionCounter>>
    /\ UNCHANGED <<config, now, submitCount>>

ResolvePrediction ==
    /\ Idle
    /\ UNCHANGED request
    /\ \E sender \in Addrs, predictionId \in Ids, actualPrice \in ActualPrices :
          resolvePrediction(sender, predictionId, actualPrice)

----------------------------------------------------------------------------
(* Admin functions *)

thresholdInRange_off(newThreshold) == TRUE

\* require(newThreshold <= BASIS_POINTS)
thresholdInRange(newThreshold) == newThreshold <= BASIS_POINTS

setAccuracyThresholdError(sender, newThreshold) ==
    IF ~hasAdminRole(sender) THEN "Unauthorized"
    ELSE IF ~thresholdInRange(newThreshold) THEN "BadThreshold"
    ELSE "ok"

setAccuracyThreshold_reevaluate(sender, newThreshold) ==
    LET err == setAccuracyThresholdError(sender, newThreshold)
    IN
    /\ accuracyThreshold' = IF err = "ok" THEN newThreshold ELSE accuracyThreshold
    /\ predictions' =
          [i \in Ids |->
              IF err = "ok" /\ predictions[i].isResolved
              THEN [predictions[i] EXCEPT !.wasAccurate =
                       isAccurate(predictions[i].accuracyPercentage, newThreshold)]
              ELSE predictions[i]]
    /\ lastCall' = [Call("setAccuracyThreshold", sender, 0, err, 0) EXCEPT
                       !.x = IF err = "ok" THEN accuracyThreshold ELSE 0,
                       !.y = IF err = "ok" THEN newThreshold ELSE 0]
    /\ UNCHANGED <<userStats, modelTypeCount, cryptoCount, userPredictions,
                   modelPerformance, cryptoPredictions, modelTypePredictions,
                   predictionCounter, paused, oracleRole, adminRole, now,
                   submitCount>>

setAccuracyThreshold(sender, newThreshold) ==
    LET err == setAccuracyThresholdError(sender, newThreshold)
    IN
    /\ accuracyThreshold' = IF err = "ok" THEN newThreshold ELSE accuracyThreshold
    \* emit AccuracyThresholdUpdated(oldThreshold, newThreshold): x and y
    /\ lastCall' = [Call("setAccuracyThreshold", sender, 0, err, 0) EXCEPT
                       !.x = IF err = "ok" THEN accuracyThreshold ELSE 0,
                       !.y = IF err = "ok" THEN newThreshold ELSE 0]
    /\ UNCHANGED <<ledger, paused, oracleRole, adminRole, now, submitCount>>

SetAccuracyThreshold ==
    /\ Idle
    /\ UNCHANGED request
    /\ \E sender \in AdminCallers, newThreshold \in Thresholds :
          setAccuracyThreshold(sender, newThreshold)

\* Pausable._pause is itself whenNotPaused
pause(sender) ==
    LET err == IF ~hasAdminRole(sender) THEN "Unauthorized"
               ELSE IF paused THEN "SystemPaused"
               ELSE "ok"
    IN
    /\ paused' = IF err = "ok" THEN TRUE ELSE paused
    /\ lastCall' = Call("pause", sender, 0, err, 0)
    /\ UNCHANGED <<ledger, accuracyThreshold, oracleRole, adminRole, now, submitCount>>

Pause == Idle /\ UNCHANGED request /\ \E sender \in AdminCallers : pause(sender)

\* Pausable._unpause is itself whenPaused
unpause(sender) ==
    LET err == IF ~hasAdminRole(sender) THEN "Unauthorized"
               ELSE IF ~paused THEN "ExpectedPause"
               ELSE "ok"
    IN
    /\ paused' = IF err = "ok" THEN FALSE ELSE paused
    /\ lastCall' = Call("unpause", sender, 0, err, 0)
    /\ UNCHANGED <<ledger, accuracyThreshold, oracleRole, adminRole, now, submitCount>>

Unpause == Idle /\ UNCHANGED request /\ \E sender \in AdminCallers : unpause(sender)

grantOracleRoleError_once(sender, oracle) ==
    IF ~hasAdminRole(sender) THEN "Unauthorized"
    ELSE IF hasOracleRole(oracle) THEN "AlreadyGranted"
    ELSE "ok"

\* onlyRole(ADMIN_ROLE); _grantRole itself does not revert
grantOracleRoleError(sender, oracle) ==
    IF ~hasAdminRole(sender) THEN "Unauthorized" ELSE "ok"

\* AccessControl._grantRole adds the account and emits RoleGranted (x = 1)
\* unless the account holds the role already
grantOracleRole(sender, oracle) ==
    LET err == grantOracleRoleError(sender, oracle)
    IN
    /\ oracleRole' = IF err = "ok" THEN oracleRole \cup {oracle} ELSE oracleRole
    /\ lastCall' = [Call("grantOracleRole", sender, 0, err, 0) EXCEPT
                       !.x = IF err = "ok" /\ ~hasOracleRole(oracle) THEN 1 ELSE 0]
    /\ UNCHANGED <<ledger, accuracyThreshold, paused, adminRole, now, submitCount>>

GrantOracleRole ==
    /\ Idle
    /\ UNCHANGED request
    /\ \E sender \in AdminCallers, oracle \in OracleCandidates :
          grantOracleRole(sender, oracle)

\* onlyRole(ADMIN_ROLE); _revokeRole itself does not revert
revokeOracleRoleError(sender, oracle) ==
    IF ~hasAdminRole(sender) THEN "Unauthorized" ELSE "ok"

\* AccessControl._revokeRole removes the account and emits RoleRevoked
\* (x = 1) unless the account does not hold the role
revokeOracleRole(sender, oracle) ==
    LET err == revokeOracleRoleError(sender, oracle)
    IN
    /\ oracleRole' = IF err = "ok" THEN oracleRole \ {oracle} ELSE oracleRole
    /\ lastCall' = [Call("revokeOracleRole", sender, 0, err, 0) EXCEPT
                       !.x = IF err = "ok" /\ hasOracleRole(oracle) THEN 1 ELSE 0]
    /\ UNCHANGED <<ledger, accuracyThreshold, paused, adminRole, now, submitCount>>

RevokeOracleRole ==
    /\ Idle
    /\ UNCHANGED request
    /\ \E sender \in AdminCallers, oracle \in OracleCandidates :
          revokeOracleRole(sender, oracle)

----------------------------------------------------------------------------
(* A later block: block.timestamp grows *)

Tick ==
    /\ Idle
    /\ now < MaxTime
    /\ now' = now + 1
    /\ UNCHANGED <<ledger, config, submitCount, lastCall, request>>

\* the sender reads the receipt of its transaction, the client the response
\* to its read request
Receipt ==
    /\ ~Idle
    /\ lastCall' = NoCall
    /\ request' = IF lastCall.op = request.op THEN NoRequest ELSE request
    /\ UNCHANGED <<ledger, config, now, submitCount>>

----------------------------------------------------------------------------
Next ==
    \/ MakePrediction
    \/ ResolvePrediction
    \/ SetAccuracyThreshold
    \/ Pause
    \/ Unpause
    \/ GrantOracleRole
    \/ RevokeOracleRole
    \/ Tick
    \/ Receipt

Spec == Init /\ [][Next]_vars

----------------------------------------------------------------------------
(* The pure function calculateAccuracy, called on its own (eth_call) *)

CalculateAccuracyCall ==
    /\ Idle
    /\ \E predictedPrice \in CalcInputs, actualPrice \in CalcInputs :
        /\ lastCall' =
              [op |-> "calculateAccuracy", sender |-> NoAddr, key |-> "", id |-> 0,
               x |-> predictedPrice, y |-> actualPrice,
               err |-> IF calculateAccuracyPanics(predictedPrice, actualPrice)
                       THEN "Panic" ELSE "ok",
               ret |-> IF calculateAccuracyPanics(predictedPrice, actualPrice)
                       THEN 0 ELSE calculateAccuracy(predictedPrice, actualPrice)]
        /\ UNCHANGED <<ledger, config, now, submitCount, request>>

NextCalc == CalculateAccuracyCall \/ Receipt

SpecCalc == Init /\ [][NextCalc]_vars

----------------------------------------------------------------------------
(* The API server: routes/admin.js (unnamed/part_001), routes/predictions.js *)
(* and services/blockchain.js.  A route handler runs its middleware and its *)
(* validation at once and then awaits the transactions the service sends;   *)
(* other transactions are mined in between.  Responses are abbreviated:     *)
(*   "Unauthorized"     403 "Admin privileges required"                     *)
(*   "ValidationError"  400 "Validation Error" / "Predictions array is      *)
(*                      required and must not be empty"                     *)

\* process.env.ADMIN_API_KEY
ADMIN_API_KEY == "test-admin-key"

\* x-admin-key headers: none, a wrong one, the right one
AdminKeys == {"", "invalid-key", "test-admin-key"}

\* the account of process.env.PRIVATE_KEY, which signs every transaction the
\* service sends: the deployer's
Signer == Deployer

\* one unit of price in the smallest unit (10^18, scaled down)
Unit == 10

\* ethers.parseUnits(value.toString(), 18)
parseUnits(value) == value * Unit

requireAdmin_off(adminKey) == TRUE

\* the middleware lets the request through
requireAdmin(adminKey) == ~(adminKey = "" \/ adminKey # ADMIN_API_KEY)

\* outcome of a request the API answered without sending a transaction
ApiCall(op, adminKey, err) ==
    [Call(op, NoAddr, 0, err, 0) EXCEPT !.key = adminKey]

\* the body of POST /api/predictions as the service receives it, for its
\* predictorAddress argument
ServiceInputs == {Arg("user1", "BTC", 50000, 55000, "LSTM")}

\* blockchainService.makePrediction(predictorAddress, predictionData)
ServiceMakePrediction ==
    /\ Idle
    /\ UNCHANGED request
    /\ \E in \in ServiceInputs, offset \in TargetOffsets :
          makePrediction(Signer, in.cryptocurrency, parseUnits(in.currentPrice),
                         parseUnits(in.predictedPrice), now + offset,
                         in.modelType, "{}")

\* GET /api/predictions/:id and blockchainService.getPrediction: the getter
\* of the public mapping predictions
GetPrediction ==
    /\ Idle
    /\ \E id \in Ids :
          lastCall' = Call("getPrediction", NoAddr, id, "ok", predictions[id].id)
    /\ UNCHANGED <<ledger, config, now, submitCount, request>>

\* actualPrice fields of the bodies of the resolve route: none, or a price
ApiPrices == {0, 54000}

\* PUT /api/predictions/:id/resolve: resolvePredictionSchema, then
\* blockchainService.resolvePrediction(id, actualPrice)
ApiResolvePrediction ==
    /\ Idle
    /\ UNCHANGED request
    /\ \E id \in Ids, actualPrice \in ApiPrices :
          IF ~(id > 0 /\ actualPrice > 0)
          THEN /\ lastCall' = ApiCall("PUT /predictions/:id/resolve", "",
                                      "ValidationError")
               /\ UNCHANGED <<ledger, config, now, submitCount>>
          ELSE resolvePrediction(Signer, id, parseUnits(actualPrice))

\* a route behind requireAdmin: the middleware refuses the request, the
\* handler rejects its body, or the handler starts its work
adminRoute(op, adminKey, bodyValid, accepted) ==
    /\ request = NoRequest
    /\ IF ~requireAdmin(adminKey)
       THEN lastCall' = ApiCall(op, adminKey, "Unauthorized") /\ UNCHANGED request
       ELSE IF ~bodyValid
       THEN lastCall' = ApiCall(op, adminKey, "ValidationError") /\ UNCHANGED request
       ELSE request' = accepted /\ UNCHANGED lastCall
    /\ UNCHANGED <<ledger, config, now, submitCount>>

\* the request as the handler holds it
Accepted(op, adminKey) == [NoRequest EXCEPT !.op = op, !.key = adminKey]

\* the fields of the object the admin functions of the service return
serviceResult == {"txHash", "blockNumber", "gasUsed"}

\* routes whose response reads result.receipt.hash, result.receipt.blockNumber
\* and result.receipt.gasUsed without optional chaining
readsReceipt(op) ==
    op \in {"POST /pause", "POST /unpause", "POST /oracle/grant",
            "POST /oracle/revoke"}

\* what the handler answers once the service has returned or thrown: the
\* error goes to next(error), and so does the TypeError of reading a
\* property of the undefined result.receipt
routeResponse(op, err) ==
    IF err # "ok" THEN err
    ELSE IF readsReceipt(op) /\ "receipt" \notin serviceResult THEN "TypeError"
    ELSE "ok"

\* the service has sent the transaction and awaits its receipt: the handler
\* holds the outcome
awaited(op) ==
    /\ request.op = op /\ request.results = <<>>
    /\ request' = [request EXCEPT !.results = <<lastCall'.err>>]

\* res.json, or next(error)
adminReply(op) ==
    /\ request.op = op /\ request.results # <<>>
    /\ lastCall' = ApiCall(op, request.key, routeResponse(op, request.results[1]))
    /\ request' = NoRequest
    /\ UNCHANGED <<ledger, config, now, submitCount>>

\* address fields of the bodies of oracle/grant and oracle/revoke: none, or
\* an account
ApiAddresses == {""} \cup OracleCandidates

\* PUT /api/admin/accuracy-threshold
ApiSetAccuracyThreshold ==
    /\ Idle
    /\ \/ \E adminKey \in AdminKeys, threshold \in Thresholds :
             adminRoute("PUT /accuracy-threshold", adminKey, threshold \in 0..10000,
                 [Accepted("PUT /accuracy-threshold", adminKey) EXCEPT
                     !.threshold = threshold])
       \/ setAccuracyThreshold(Signer, request.threshold) /\ awaited("PUT /accuracy-threshold")
       \/ adminReply("PUT /accuracy-threshold")

\* POST /api/admin/pause
ApiPause ==
    /\ Idle
    /\ \/ \E adminKey \in AdminKeys :
             adminRoute("POST /pause", adminKey, TRUE, Accepted("POST /pause", adminKey))
       \/ pause(Signer) /\ awaited("POST /pause")
       \/ adminReply("POST /pause")

\* POST /api/admin/unpause
ApiUnpause ==
    /\ Idle
    /\ \/ \E adminKey \in AdminKeys :
             adminRoute("POST /unpause", adminKey, TRUE, Accepted("POST /unpause", adminKey))
       \/ unpause(Signer) /\ awaited("POST /unpause")
       \/ adminReply("POST /unpause")

\* POST /api/admin/oracle/grant
ApiGrantOracle ==
    /\ Idle
    /\ \/ \E adminKey \in AdminKeys, address \in ApiAddresses :
             adminRoute("POST /oracle/grant", adminKey, address # "",
                 [Accepted("POST /oracle/grant", adminKey) EXCEPT !.address = address])
       \/ grantOracleRole(Signer, request.address) /\ awaited("POST /oracle/grant")
       \/ adminReply("POST /oracle/grant")

\* POST /api/admin/oracle/revoke
ApiRevokeOracle ==
    /\ Idle
    /\ \/ \E adminKey \in AdminKeys, address \in ApiAddresses :
             adminRoute("POST /oracle/revoke", adminKey, address # "",
                 [Accepted("POST /oracle/revoke", adminKey) EXCEPT !.address = address])
       \/ revokeOracleRole(Signer, request.address) /\ awaited("POST /oracle/revoke")
       \/ adminReply("POST /oracle/revoke")

(* POST /api/admin/bulk-resolve *)

\* an entry of the predictions array; predictionId 0 and actualPrice 0 stand
\* for a field that is missing
Entry(predictionId, actualPrice) ==
    [predictionId |-> predictionId, actualPrice |-> actualPrice]

\* an entry for every id the ledger can hold and, in second place, one for
\* an id it cannot
MixedBatch ==
    [k \in 1..(MaxPredictions + 1) |->
        Entry(IF k = 1 THEN 1 ELSE IF k = 2 THEN MaxPredictions + 1 ELSE k - 1,
              54000)]

\* the predictions arrays of the requests: none, the mixed one, one that
\* names an id twice and lacks a price, one that lacks an id and has a
\* negative price
Batches ==
    {<<>>, MixedBatch,
     <<Entry(1, 54000), Entry(1, 54000), Entry(2, 0)>>,
     <<Entry(0, 54000), Entry(2, -1000), Entry(1, 54000)>>}

\* !resolveId || !actualPrice || actualPrice <= 0
invalidEntry(pred) ==
    pred.predictionId = 0 \/ pred.actualPrice = 0 \/ pred.actualPrice <= 0

afterEntry_abort(rest) == <<>>

\* the for loop goes on to the next entry, also after a failure
afterEntry(rest) == Tail(rest)

\* one iteration of the loop: the entry is refused as invalid, or the
\* service sends resolvePrediction and awaits its receipt
bulkResolveEntry ==
    LET pred == Head(request.rest)
        resolveId == pred.predictionId
        actualPrice == parseUnits(pred.actualPrice)
    IN
    /\ request.op = "POST /bulk-resolve" /\ request.rest # <<>>
    /\ IF invalidEntry(pred)
       THEN /\ request' = [request EXCEPT
                   !.rest = afterEntry(@),
                   !.errors = Append(@, [predictionId |-> resolveId,
                                         error |-> "Invalid prediction data"])]
            /\ UNCHANGED <<ledger, config, now, submitCount, lastCall>>
       ELSE /\ resolvePrediction(Signer, resolveId, actualPrice)
            /\ request' =
                  IF resolvePredictionError(Signer, resolveId, actualPrice) = "ok"
                  THEN [request EXCEPT !.rest = Tail(@),
                                       !.results = Append(@, resolveId)]
                  ELSE [request EXCEPT
                          !.rest = afterEntry(@),
                          !.errors = Append(@,
                              [predictionId |-> resolveId,
                               error |-> resolvePredictionError(Signer, resolveId,
                                                                actualPrice)])]

\* res.json: resolved, failed and summary.total as x, y and ret
bulkResolveReply ==
    /\ request.op = "POST /bulk-resolve" /\ request.rest = <<>>
    /\ lastCall' = [ApiCall("POST /bulk-resolve", request.key, "ok") EXCEPT
                       !.x = Len(request.results),
                       !.y = Len(request.errors),
                       !.ret = Len(request.predictions)]
    /\ request' = NoRequest
    /\ UNCHANGED <<ledger, config, now, submitCount>>

ApiBulkResolve ==
    /\ Idle
    /\ \/ \E adminKey \in AdminKeys, batch \in Batches :
             adminRoute("POST /bulk-resolve", adminKey, batch # <<>>,
                 [Accepted("POST /bulk-resolve", adminKey) EXCEPT
                     !.predictions = batch, !.rest = batch])
       \/ bulkResolveEntry
       \/ bulkResolveReply

----------------------------------------------------------------------------
(* The prediction routes and bulk-resolve, with time *)

NextApi ==
    \/ ServiceMakePrediction
    \/ ApiResolvePrediction
    \/ GetPrediction
    \/ ApiBulkResolve
    \/ Tick
    \/ Receipt

SpecApi == Init /\ [][NextApi]_vars

(* The admin functions, called directly and through their routes, with the  *)
(* prediction routes and time *)

NextAdmin ==
    \/ ServiceMakePrediction
    \/ ApiResolvePrediction
    \/ ApiSetAccuracyThreshold
    \/ ApiPause
    \/ ApiUnpause
    \/ ApiGrantOracle
    \/ ApiRevokeOracle
    \/ SetAccuracyThreshold
    \/ Pause
    \/ Unpause
    \/ GrantOracleRole
    \/ RevokeOracleRole
    \/ Tick
    \/ Receipt

SpecAdmin == Init /\ [][NextAdmin]_vars

----------------------------------------------------------------------------
(* Derived views of the storage *)

\* ids whose slot of the predictions mapping has been written
StoredIds == {i \in Ids : predictions[i] # ZeroPrediction}

PredictionsOf(u) == {i \in StoredIds : predictions[i].predictor = u}

ResolvedOf(u) == {i \in PredictionsOf(u) : predictions[i].isResolved}

(* The list getters *)

getUserPredictions(user) == userPredictions[user]

getCryptoPredictions(cryptocurrency) == cryptoPredictions[cryptocurrency]

getModelTypePredictions(modelType) == modelTypePredictions[modelType]

(* The count getters *)

getUserModelTypeCount_total(user, modelType) == userStats[user].totalPredictions

getUserModelTypeCount(user, modelType) == modelTypeCount[user][modelType]

getUserCryptoCount(user, cryptocurrency) == cryptoCount[user][cryptocurrency]

WithModel(m) == {i \in StoredIds : predictions[i].modelType = m}

ResolvedWithModel(m) == {i \in WithModel(m) : predictions[i].isResolved}

RECURSIVE SumScore(_)
SumScore(S) ==
    IF S = {} THEN 0
    ELSE LET i == CHOOSE j \in S : TRUE
         IN predictions[i].accuracyPercentage + SumScore(S \ {i})

----------------------------------------------------------------------------
(* C1: the stored prediction ids are exactly 1..N, N the number of          *)
(* makePrediction calls that returned, and predictionCounter = N; the k-th  *)
(* returning call returns k; a reverted makePrediction consumes no id.      *)

C1_IdsDense ==
    /\ StoredIds = 1..submitCount
    /\ predictionCounter = submitCount
    /\ \A i \in StoredIds : predictions[i].id = i
    /\ (lastCall.op = "makePrediction" /\ lastCall.err = "ok")
          => lastCall.ret = submitCount

C1_RejectedConsumesNoId ==
    (lastCall'.op = "makePrediction" /\ lastCall'.err # "ok")
        => (predictionCounter' = predictionCounter /\ StoredIds' = StoredIds
            /\ submitCount' = submitCount)

C1_IdDensity == [](C1_IdsDense) /\ [][C1_RejectedConsumesNoId]_vars

\* two predictions are stored, one is resolved, and a makePrediction has
\* just been rejected
C1_Witness ==
    /\ submitCount = 2
    /\ \E i \in StoredIds : predictions[i].isResolved
    /\ lastCall.op = "makePrediction" /\ lastCall.err # "ok"

----------------------------------------------------------------------------
(* C2: once isResolved is true, every resolvePrediction on that id reverts  *)
(* with AlreadyResolved, whoever sends it and whatever the price and time,  *)
(* and no field of the prediction changes any more.                         *)

C2_SecondResolveFails ==
    \A i \in Ids : predictions[i].isResolved =>
        \A sender \in Addrs, actualPrice \in ActualPrices :
            resolvePredictionError(sender, i, actualPrice) = "AlreadyResolved"

C2_ResolvedIsFrozen ==
    /\ \A i \in Ids : predictions[i].isResolved => predictions'[i] = predictions[i]
    /\ (lastCall'.op = "resolvePrediction" /\ lastCall'.err = "ok")
          => ~predictions[lastCall'.id].isResolved

C2_WriteOnce == [](C2_SecondResolveFails) /\ [][C2_ResolvedIsFrozen]_vars

\* a resolved prediction on which a further resolve has just been refused,
\* under a threshold that would have classified it differently
C2_Witness ==
    /\ lastCall.op = "resolvePrediction" /\ lastCall.err = "AlreadyResolved"
    /\ \E i \in StoredIds :
          /\ predictions[i].isResolved
          /\ predictions[i].wasAccurate #
                isAccurate(predictions[i].accuracyPercentage, accuracyThreshold)

----------------------------------------------------------------------------
(* C3: for every account u, userStats[u].totalPredictions is the number of  *)
(* stored predictions of u, accuratePredictions the number of u's resolved  *)
(* predictions with wasAccurate, totalAccuracyScore the sum of their        *)
(* accuracyPercentage, also when somebody else resolved them.               *)

C3_StatsConsistent ==
    \A u \in Addrs :
        /\ userStats[u].totalPredictions = Cardinality(PredictionsOf(u))
        /\ userStats[u].accuratePredictions =
              Cardinality({i \in ResolvedOf(u) : predictions[i].wasAccurate})
        /\ userStats[u].totalAccuracyScore = SumScore(ResolvedOf(u))

\* an oracle that is not the predictor has just resolved a prediction, and
\* the predictor has an accurate and an inaccurate resolved prediction
C3_Witness ==
    /\ lastCall.op = "resolvePrediction" /\ lastCall.err = "ok"
    /\ lastCall.sender # predictions[lastCall.id].predictor
    /\ \E u \in Addrs :
          /\ Cardinality(ResolvedOf(u)) = 2
          /\ userStats[u].accuratePredictions = 1

----------------------------------------------------------------------------
(* The accuracy score as the specification states it: 10000 for equal       *)
(* prices, otherwise max(0, 10000 - floor(|predicted - actual| * 10000 /    *)
(* actual)).                                                                *)

Max(a, b) == IF a >= b THEN a ELSE b

Abs(a) == IF a >= 0 THEN a ELSE -a

SpecAccuracy(predicted, actual) ==
    IF predicted = actual THEN 10000
    ELSE Max(0, 10000 - ((Abs(predicted - actual) * 10000) \div actual))

\* sender is neither the predictor of prediction i nor an oracle
Outsider(sender, i) ==
    sender # predictions[i].predictor /\ sender \notin oracleRole

ResolveReverted == lastCall'.op = "resolvePrediction" /\ lastCall'.err # "ok"

ResolveReturned == lastCall'.op = "resolvePrediction" /\ lastCall'.err = "ok"

----------------------------------------------------------------------------
(* C4, as claimed: a caller who is neither the predictor nor an oracle      *)
(* always gets Unauthorized from resolvePrediction.                         *)

C4_OutsiderAlwaysUnauthorized ==
    \A i \in StoredIds, sender \in Addrs, actualPrice \in ActualPrices :
        Outsider(sender, i) =>
            resolvePredictionError(sender, i, actualPrice) = "Unauthorized"

(* C4, amended: resolvePrediction returns only for the predictor or a       *)
(* current holder of the oracle role; a caller who is neither never         *)
(* succeeds, gets Unauthorized on every stored unresolved prediction        *)
(* (AlreadyResolved on a resolved one), and leaves the storage unchanged.   *)

C4_OutsiderRefused ==
    \A i \in Ids, sender \in Addrs, actualPrice \in ActualPrices :
        Outsider(sender, i) =>
            /\ resolvePredictionError(sender, i, actualPrice) # "ok"
            /\ (i \in StoredIds /\ ~predictions[i].isResolved)
                  => resolvePredictionError(sender, i, actualPrice) = "Unauthorized"
            /\ (i \in StoredIds /\ predictions[i].isResolved)
                  => resolvePredictionError(sender, i, actualPrice) = "AlreadyResolved"

C4_ResolveStep ==
    /\ ResolveReturned =>
          \/ lastCall'.sender = predictions[lastCall'.id].predictor
          \/ lastCall'.sender \in oracleRole
    /\ ResolveReverted => UNCHANGED <<ledger, config>>

C4_OnlyAuthorizedResolve == [](C4_OutsiderRefused) /\ [][C4_ResolveStep]_vars

\* an account that was granted the oracle role has resolved a prediction of
\* another account, has lost the role since, and is now refused on the
\* prediction that is left
C4_Witness ==
    /\ lastCall.op = "resolvePrediction" /\ lastCall.err = "Unauthorized"
    /\ oracleRole = {Deployer}
    /\ \E i, j \in StoredIds :
          /\ predictions[i].predictor = "user1" /\ predictions[i].isResolved
          /\ predictions[j].predictor = "user1" /\ ~predictions[j].isResolved
          /\ now >= predictions[j].targetTimestamp

----------------------------------------------------------------------------
(* C5, as claimed: while block.timestamp < targetTimestamp, every           *)
(* resolvePrediction on a stored unresolved prediction reverts with         *)
(* TooEarly, whoever the caller.                                            *)

C5_AlwaysTooEarly ==
    \A i \in StoredIds, sender \in Addrs, actualPrice \in ActualPrices :
        (~predictions[i].isResolved /\ now < predictions[i].targetTimestamp)
            => resolvePredictionError(sender, i, actualPrice) = "TooEarly"

(* C5, amended: while block.timestamp < targetTimestamp every               *)
(* resolvePrediction on a stored unresolved prediction reverts and leaves   *)
(* it unresolved; the reason is TooEarly whenever the caller is the         *)
(* predictor or an oracle and actualPrice > 0 (Unauthorized and the price   *)
(* check come first); at block.timestamp = targetTimestamp no call is       *)
(* refused as too early.                                                    *)

C5_NotBeforeTarget ==
    \A i \in StoredIds, sender \in Addrs, actualPrice \in ActualPrices :
        LET err == resolvePredictionError(sender, i, actualPrice) IN
        ~predictions[i].isResolved =>
            /\ now < predictions[i].targetTimestamp =>
                  /\ err # "ok"
                  /\ (~Outsider(sender, i) /\ actualPrice > 0) => err = "TooEarly"
            /\ now >= predictions[i].targetTimestamp => err # "TooEarly"

C5_ResolveStep ==
    /\ ResolveReturned =>
          now >= predictions[lastCall'.id].targetTimestamp
    /\ ResolveReverted => predictions' = predictions

C5_TooEarly == [](C5_NotBeforeTarget) /\ [][C5_ResolveStep]_vars

\* a prediction has been resolved at the very instant of its target
C5_Witness ==
    /\ lastCall.op = "resolvePrediction" /\ lastCall.err = "ok"
    /\ now = predictions[lastCall.id].targetTimestamp
    /\ \E j \in StoredIds : now < predictions[j].targetTimestamp

----------------------------------------------------------------------------
(* C6: a resolvePrediction that returns stores accuracyPercentage =         *)
(* accuracy(predictedPrice, actualPrice) and wasAccurate =                  *)
(* (accuracyPercentage >= 10000 - accuracyThreshold) for the threshold in   *)
(* force at the call; 55000 against 54000 under threshold 500 gives 9815    *)
(* and wasAccurate.                                                         *)

C6_ResolveStep ==
    ResolveReturned =>
        LET before == predictions[lastCall'.id]
            after == predictions'[lastCall'.id]
        IN
        /\ after.isResolved
        /\ after.actualPrice \in ActualPrices \ {0}
        /\ after.accuracyPercentage =
              SpecAccuracy(before.predictedPrice, after.actualPrice)
        /\ after.wasAccurate = (after.accuracyPercentage >= 10000 - accuracyThreshold)
        /\ (before.predictedPrice = 55000 /\ after.actualPrice = 54000
              /\ accuracyThreshold = 500)
              => (after.accuracyPercentage = 9815 /\ after.wasAccurate)

----------------------------------------------------------------------------
(* C7: for positive predicted and actual prices of the checked range,       *)
(* calculateAccuracy returns 10000 when they are equal and otherwise        *)
(* max(0, 10000 - floor(|predicted - actual| * 10000 / actual)), the        *)
(* quotient taken over the actual price and truncated; the result lies in   *)
(* 0..10000.                                                                *)

\* the prices the claim ranges over
CalcRange == CalcInputs \ {UintMax}

----------------------------------------------------------------------------
(* C8: calculateAccuracy returns 10000 minus the difference in basis points *)
(* of the predicted price: (50000, 50000) gives 10000, (50000, 45000) 9000, *)
(* (50000, 25000) 5000 and (50000, 54000) 9200.                             *)

C8_OfPredictedPrice ==
    (lastCall.op = "calculateAccuracy" /\ lastCall.x \in CalcRange
        /\ lastCall.y \in CalcRange) =>
        /\ lastCall.err = "ok"
        /\ lastCall.ret =
              Max(0, 10000 - ((Abs(lastCall.x - lastCall.y) * 10000) \div lastCall.x))
        /\ (lastCall.x = 50000 /\ lastCall.y = 50000) => lastCall.ret = 10000
        /\ (lastCall.x = 50000 /\ lastCall.y = 45000) => lastCall.ret = 9000
        /\ (lastCall.x = 50000 /\ lastCall.y = 25000) => lastCall.ret = 5000
        /\ (lastCall.x = 50000 /\ lastCall.y = 54000) => lastCall.ret = 9200

----------------------------------------------------------------------------
(* C9: while paused, every makePrediction reverts with SystemPaused and     *)
(* changes nothing; once unpaused, a makePrediction with valid arguments    *)
(* passes again and returns the next sequential id.                         *)

C9_PausedRefuses ==
    \A in \in SubmitInputs, offset \in TargetOffsets :
        LET err == makePredictionError(in.cryptocurrency, in.currentPrice,
                       in.predictedPrice, now + offset, in.modelType)
        IN
        /\ paused => err = "SystemPaused"
        /\ (~paused /\ in \in ValidInputs /\ offset > 0) => err = "ok"

C9_SubmitStep ==
    /\ (lastCall'.op = "makePrediction" /\ lastCall'.err # "ok")
          => UNCHANGED <<ledger, config, submitCount>>
    /\ (lastCall'.op = "makePrediction" /\ paused)
          => lastCall'.err = "SystemPaused"
    /\ (lastCall'.op = "makePrediction" /\ lastCall'.err = "ok")
          => /\ ~paused
             /\ lastCall'.ret = predictionCounter + 1
             /\ predictionCounter' = predictionCounter + 1

C9_Pause == [](C9_PausedRefuses) /\ [][C9_SubmitStep]_vars

\* a makePrediction has just been refused because the contract is paused,
\* with one prediction stored before the pause
C9_Witness ==
    /\ paused
    /\ lastCall.op = "makePrediction" /\ lastCall.err = "SystemPaused"
    /\ predictionCounter = 1

----------------------------------------------------------------------------
(* C10: the predictor of an unresolved prediction can always resolve it:    *)
(* with actualPrice > 0 at block.timestamp >= targetTimestamp the call      *)
(* succeeds, whatever paused and the oracle role are.                       *)

C10_PredictorResolves ==
    \A i \in StoredIds, actualPrice \in ActualPrices :
        (~predictions[i].isResolved /\ actualPrice > 0
            /\ now >= predictions[i].targetTimestamp)
            => resolvePredictionError(predictions[i].predictor, i, actualPrice) = "ok"

----------------------------------------------------------------------------
(* C11: setAccuracyThreshold, pause, unpause, grantOracleRole and           *)
(* revokeOracleRole sent by an account without ADMIN_ROLE, and their API    *)
(* routes requested without the right x-admin-key, fail with Unauthorized   *)
(* and leave accuracyThreshold, paused, the oracle role and the whole       *)
(* ledger unchanged; the configuration changes only in a call of one of     *)
(* the five functions by a holder of ADMIN_ROLE, and the API sends such a   *)
(* call only for a request that carried the key.                            *)

AdminFunctions ==
    {"setAccuracyThreshold", "pause", "unpause", "grantOracleRole", "revokeOracleRole"}

AdminRoutes ==
    {"PUT /accuracy-threshold", "POST /pause", "POST /unpause", "POST /oracle/grant",
     "POST /oracle/revoke"}

C11_KeyHeld ==
    /\ request # NoRequest => request.key = ADMIN_API_KEY
    /\ \A adminKey \in AdminKeys :
          adminKey # ADMIN_API_KEY => ~requireAdmin(adminKey)

C11_AdminStep ==
    /\ (lastCall'.op \in AdminFunctions /\ lastCall' # lastCall
          /\ lastCall'.sender \notin adminRole)
          => (lastCall'.err = "Unauthorized" /\ UNCHANGED <<ledger, config>>)
    /\ (lastCall'.op \in AdminRoutes /\ lastCall' # lastCall
          /\ lastCall'.key # ADMIN_API_KEY)
          => (lastCall'.err = "Unauthorized"
              /\ UNCHANGED <<ledger, config, request>>)
    /\ config' # config
          => (lastCall'.op \in AdminFunctions /\ lastCall'.err = "ok"
              /\ lastCall'.sender \in adminRole)
    /\ (config' # config /\ request # NoRequest /\ request' # request)
          => request.key = ADMIN_API_KEY

----------------------------------------------------------------------------
(* C12: accuracyThreshold lies in 0..10000 in every reachable state: it is  *)
(* 500 initially; setAccuracyThreshold(v) sent by an admin reverts for      *)
(* v > 10000 (the validation error "Threshold cannot exceed 100%") and      *)
(* leaves the threshold unchanged; for v <= 10000 it sets the threshold to  *)
(* exactly v and emits AccuracyThresholdUpdated(old value, v).              *)

C12_InRange ==
    /\ accuracyThreshold \in 0..10000
    /\ \A sender \in adminRole, v \in Thresholds :
          setAccuracyThresholdError(sender, v) =
              IF v > 10000 THEN "BadThreshold" ELSE "ok"

C12_SetStep ==
    (lastCall'.op = "setAccuracyThreshold" /\ lastCall' # lastCall) =>
        /\ lastCall'.err # "ok" =>
              (accuracyThreshold' = accuracyThreshold
               /\ lastCall'.x = 0 /\ lastCall'.y = 0)
        /\ lastCall'.err = "ok" =>
              /\ lastCall'.y \in Thresholds /\ lastCall'.y <= 10000
              /\ accuracyThreshold' = lastCall'.y
              /\ lastCall'.x = accuracyThreshold
        /\ UNCHANGED <<ledger, paused, oracleRole, adminRole>>

C12_ThresholdRange ==
    (accuracyThreshold = 500) /\ [](C12_InRange) /\ [][C12_SetStep]_vars

\* an admin has just been refused a threshold above 10000, after the
\* threshold had been changed from its initial value
C12_Witness ==
    /\ lastCall.op = "setAccuracyThreshold" /\ lastCall.err = "BadThreshold"
    /\ lastCall.sender \in adminRole
    /\ accuracyThreshold = 100

----------------------------------------------------------------------------
(* C13: bulk-resolve attempts every entry of the batch, in list order, as a *)
(* resolve of its own: a failing entry (unknown id, too early, already      *)
(* resolved, non-positive or missing price, missing id) goes to the error   *)
(* report, does not keep the later entries from being attempted and does    *)
(* not undo the earlier ones; resolved + failed = number of entries, and    *)
(* the entries counted as resolved are exactly those whose prediction this  *)
(* batch resolved in the ledger (the mixed batch, one unknown id among      *)
(* valid ones, reports all but one resolved and one failed).                *)

BulkInFlight == request.op = "POST /bulk-resolve"

\* the entries already processed
BulkDone == Len(request.predictions) - Len(request.rest)

C13_Progress ==
    BulkInFlight =>
        /\ Len(request.results) + Len(request.errors) = BulkDone
        /\ request.rest =
              SubSeq(request.predictions, BulkDone + 1, Len(request.predictions))
        /\ \A k \in 1..Len(request.results) :
              /\ predictions[request.results[k]].isResolved
              /\ \E n \in 1..BulkDone :
                    /\ request.predictions[n].predictionId = request.results[k]
                    /\ predictions[request.results[k]].actualPrice =
                          request.predictions[n].actualPrice * Unit
        /\ \A k \in 1..Len(request.errors) :
              \E n \in 1..BulkDone :
                  request.predictions[n].predictionId = request.errors[k].predictionId

C13_EntryStep ==
    (BulkInFlight /\ request' # request /\ request'.op = request.op) =>
        LET pred == Head(request.rest)
            resolvedNow == /\ ~predictions[pred.predictionId].isResolved
                           /\ predictions'[pred.predictionId].isResolved
        IN
        /\ request'.rest = Tail(request.rest)
        /\ request'.predictions = request.predictions
        /\ IF resolvedNow
           THEN /\ request'.results = Append(request.results, pred.predictionId)
                /\ request'.errors = request.errors
           ELSE /\ request'.results = request.results
                /\ Len(request'.errors) = Len(request.errors) + 1
                /\ request'.errors[Len(request'.errors)].predictionId =
                      pred.predictionId
                /\ UNCHANGED ledger
        /\ \A i \in Ids \ {pred.predictionId} : predictions'[i] = predictions[i]

C13_ReplyStep ==
    (lastCall'.op = "POST /bulk-resolve" /\ lastCall'.err = "ok"
        /\ lastCall' # lastCall) =>
        /\ request.rest = <<>>
        /\ lastCall'.x = Len(request.results)
        /\ lastCall'.y = Len(request.errors)
        /\ lastCall'.x + lastCall'.y = Len(request.predictions)
        /\ lastCall'.ret = Len(request.predictions)
        /\ request.predictions = MixedBatch =>
              /\ lastCall'.y >= 1
              /\ lastCall'.x = MaxPredictions <=> lastCall'.y = 1
        /\ UNCHANGED <<ledger, config>>

----------------------------------------------------------------------------
(* C14: reading a prediction by an id that was never assigned (0, or above  *)
(* predictionCounter) fails with NotFound; the read path never returns a    *)
(* record, not even an all-zero one, for such an id.                        *)

C14_GetUnknownIsNotFound ==
    (lastCall.op = "getPrediction" /\ ~predictionExists(lastCall.id))
        => lastCall.err = "NotFound"

----------------------------------------------------------------------------
(* The reverts of makePrediction and setAccuracyThreshold that the          *)
(* specification calls ValidationError                                      *)

ValidationErrors ==
    {"EmptyCrypto", "BadCurrentPrice", "BadPredictedPrice", "PastTarget",
     "EmptyModel", "BadThreshold"}

SubmitReverted == lastCall'.op = "makePrediction" /\ lastCall'.err # "ok"

SubmitReturned == lastCall'.op = "makePrediction" /\ lastCall'.err = "ok"

----------------------------------------------------------------------------
(* C15, as claimed: a makePrediction whose targetTimestamp is not strictly  *)
(* greater than block.timestamp (block.timestamp - 1, block.timestamp)      *)
(* always fails with a validation error.                                    *)

C15_PastTargetIsValidationError ==
    \A in \in SubmitInputs, offset \in {o \in TargetOffsets : o <= 0} :
        makePredictionError(in.cryptocurrency, in.currentPrice, in.predictedPrice,
                            now + offset, in.modelType) \in ValidationErrors

(* C15, amended: every stored prediction has targetTimestamp >              *)
(* predictionTimestamp; a makePrediction whose targetTimestamp is not       *)
(* strictly greater than block.timestamp always reverts, with a validation  *)
(* error when the contract is not paused and with SystemPaused when it is   *)
(* (the pause is checked first), and stores no prediction and changes no    *)
(* counter and no list.                                                     *)

C15_TargetAfterCreation ==
    /\ \A i \in StoredIds :
          predictions[i].targetTimestamp > predictions[i].predictionTimestamp
    /\ \A in \in SubmitInputs, offset \in {o \in TargetOffsets : o <= 0} :
          LET err == makePredictionError(in.cryptocurrency, in.currentPrice,
                         in.predictedPrice, now + offset, in.modelType)
          IN
          /\ err # "ok"
          /\ ~paused => err \in ValidationErrors
          /\ paused => err = "SystemPaused"
          /\ (~paused /\ in \in ValidInputs) => err = "PastTarget"

C15_SubmitStep ==
    /\ SubmitReverted => UNCHANGED <<ledger, config>>
    /\ SubmitReturned =>
          /\ predictions'[lastCall'.id].predictionTimestamp = now
          /\ predictions'[lastCall'.id].targetTimestamp > now

C15_PastTargets == [](C15_TargetAfterCreation) /\ [][C15_SubmitStep]_vars

\* a makePrediction has just been refused for its target, at a time later
\* than the creation of a stored prediction
C15_Witness ==
    /\ lastCall.op = "makePrediction" /\ lastCall.err = "PastTarget"
    /\ \E i \in StoredIds : predictions[i].predictionTimestamp < now

----------------------------------------------------------------------------
(* C16: makePrediction checks its arguments in the order cryptocurrency     *)
(* non-empty, currentPrice > 0, predictedPrice > 0, targetTimestamp >       *)
(* block.timestamp, modelType non-empty; when several are violated in one   *)
(* call, the error is that of the first violated one in this order; every   *)
(* rejected makePrediction leaves predictionCounter, the predictions, the   *)
(* id lists and the counters unchanged.                                     *)

\* the constraints a call violates, numbered in the order of the claim
ViolatedConstraints(in, targetTime) ==
    {k \in 1..5 :
        \/ k = 1 /\ in.cryptocurrency = ""
        \/ k = 2 /\ ~(in.currentPrice > 0)
        \/ k = 3 /\ ~(in.predictedPrice > 0)
        \/ k = 4 /\ ~(targetTime > now)
        \/ k = 5 /\ in.modelType = ""}

ConstraintError(k) ==
    CASE k = 1 -> "EmptyCrypto" [] k = 2 -> "BadCurrentPrice"
      [] k = 3 -> "BadPredictedPrice" [] k = 4 -> "PastTarget"
      [] k = 5 -> "EmptyModel"

Least(S) == CHOOSE k \in S : \A j \in S : k <= j

C16_FirstViolatedWins ==
    \A in \in SubmitInputs, offset \in TargetOffsets :
        LET err == makePredictionError(in.cryptocurrency, in.currentPrice,
                       in.predictedPrice, now + offset, in.modelType)
            V == ViolatedConstraints(in, now + offset)
        IN
        /\ (whenNotPaused /\ V # {}) => err = ConstraintError(Least(V))
        /\ (whenNotPaused /\ V = {}) => err = "ok"
        /\ err \in ValidationErrors =>
              (V # {} /\ err = ConstraintError(Least(V)))

C16_SubmitStep ==
    SubmitReverted =>
        /\ UNCHANGED <<ledger, submitCount>>
        /\ whenNotPaused => (lastCall'.err \in ValidationErrors /\ lastCall'.x >= 1)
        /\ ~whenNotPaused => lastCall'.err = "SystemPaused"

----------------------------------------------------------------------------
(* C17: for every model type m, modelPerformance[m].totalPredictions is the *)
(* number of stored predictions with modelType m, whoever made them,        *)
(* accuratePredictions the number of resolved ones among them with          *)
(* wasAccurate, and totalAccuracyScore the sum of accuracyPercentage over   *)
(* the resolved ones.                                                       *)

C17_ModelPerformanceConsistent ==
    \A m \in ModelTypes :
        /\ modelPerformance[m].totalPredictions = Cardinality(WithModel(m))
        /\ modelPerformance[m].accuratePredictions =
              Cardinality({i \in ResolvedWithModel(m) : predictions[i].wasAccurate})
        /\ modelPerformance[m].totalAccuracyScore = SumScore(ResolvedWithModel(m))

\* a model type with resolved predictions of two accounts, one accurate
\* and one not, the second of them resolved just now
C17_Witness ==
    \E m \in ModelTypes :
        /\ \E i, j \in ResolvedWithModel(m) :
              /\ predictions[i].predictor # predictions[j].predictor
              /\ predictions[i].wasAccurate /\ ~predictions[j].wasAccurate
        /\ modelPerformance[m].totalAccuracyScore > 0
        /\ lastCall.op = "resolvePrediction" /\ lastCall.err = "ok"

----------------------------------------------------------------------------
(* C18: the lists returned by getUserPredictions, getCryptoPredictions and  *)
(* getModelTypePredictions are strictly increasing sequences of ids         *)
(* (creation order, no duplicates); every stored id is in exactly one       *)
(* account's list, one cryptocurrency's and one model type's, those of its  *)
(* own predictor, cryptocurrency and modelType; resolvePrediction changes   *)
(* no list.                                                                 *)

StrictlyIncreasing(list) ==
    \A a, b \in 1..Len(list) : a < b => list[a] < list[b]

Elements(list) == {list[k] : k \in 1..Len(list)}

C18_ListsPartitionIds ==
    /\ \A u \in Addrs :
          /\ StrictlyIncreasing(getUserPredictions(u))
          /\ Elements(getUserPredictions(u)) =
                {i \in StoredIds : predictions[i].predictor = u}
    /\ \A c \in Cryptos :
          /\ StrictlyIncreasing(getCryptoPredictions(c))
          /\ Elements(getCryptoPredictions(c)) =
                {i \in StoredIds : predictions[i].cryptocurrency = c}
    /\ \A m \in ModelTypes :
          /\ StrictlyIncreasing(getModelTypePredictions(m))
          /\ Elements(getModelTypePredictions(m)) =
                {i \in StoredIds : predictions[i].modelType = m}

C18_ResolveStep ==
    (lastCall'.op = "resolvePrediction" /\ lastCall' # lastCall)
        => UNCHANGED <<userPredictions, cryptoPredictions, modelTypePredictions>>

C18_Lists == [](C18_ListsPartitionIds) /\ [][C18_ResolveStep]_vars

\* an account with two predictions, for two cryptocurrencies and two model
\* types, of which the first has just been resolved
C18_Witness ==
    /\ \E u \in Addrs : getUserPredictions(u) = <<1, 2>>
    /\ predictions[1].cryptocurrency # predictions[2].cryptocurrency
    /\ predictions[1].modelType # predictions[2].modelType
    /\ lastCall.op = "resolvePrediction" /\ lastCall.err = "ok" /\ lastCall.id = 1

----------------------------------------------------------------------------
(* C19: grantOracleRole and revokeOracleRole never fail for an admin and    *)
(* are idempotent: granting the role to an account that holds it, or        *)
(* revoking it from one that does not, succeeds and leaves the holders of   *)
(* the role unchanged; two grants give the same holders as one; a grant     *)
(* followed by a revoke of the same account leaves it without the role.     *)

C19_NeverFails ==
    \A sender \in adminRole, a \in Addrs :
        /\ grantOracleRoleError(sender, a) = "ok"
        /\ revokeOracleRoleError(sender, a) = "ok"

C19_RoleStep ==
    /\ (lastCall'.op = "grantOracleRole" /\ lastCall' # lastCall
          /\ lastCall'.sender \in adminRole) =>
          /\ lastCall'.err = "ok"
          /\ \E a \in OracleCandidates :
                /\ oracleRole' = oracleRole \cup {a}
                /\ a \in oracleRole'
                /\ a \in oracleRole => oracleRole' = oracleRole
                /\ (lastCall'.x = 0) = (a \in oracleRole)
    /\ (lastCall'.op = "revokeOracleRole" /\ lastCall' # lastCall
          /\ lastCall'.sender \in adminRole) =>
          /\ lastCall'.err = "ok"
          /\ \E a \in OracleCandidates :
                /\ oracleRole' = oracleRole \ {a}
                /\ a \notin oracleRole'
                /\ a \notin oracleRole => oracleRole' = oracleRole
                /\ (lastCall'.x = 0) = (a \notin oracleRole)

C19_Idempotent == [](C19_NeverFails) /\ [][C19_RoleStep]_vars

\* an admin has just granted the role to an account that held it already:
\* the call returned and nothing was granted
C19_Witness ==
    /\ lastCall.op = "grantOracleRole" /\ lastCall.err = "ok"
    /\ lastCall.sender \in adminRole /\ lastCall.x = 0
    /\ OracleCandidates \subseteq oracleRole

----------------------------------------------------------------------------
(* C20: for every stored prediction, isResolved is false if and only if     *)
(* actualPrice, wasAccurate and accuracyPercentage all have their zero      *)
(* values: every resolved prediction has actualPrice > 0, and no            *)
(* unresolved prediction has a non-zero actualPrice, a true wasAccurate or  *)
(* a non-zero accuracyPercentage.                                           *)

C20_ResolvedIffFieldsSet ==
    \A i \in StoredIds :
        /\ ~predictions[i].isResolved <=>
              (predictions[i].actualPrice = 0 /\ ~predictions[i].wasAccurate
               /\ predictions[i].accuracyPercentage = 0)
        /\ predictions[i].isResolved => predictions[i].actualPrice > 0
        /\ ~predictions[i].isResolved =>
              (predictions[i].actualPrice = 0 /\ predictions[i].wasAccurate = FALSE
               /\ predictions[i].accuracyPercentage = 0)

\* a prediction resolved as not accurate next to an unresolved one, after a
\* resolve with price 0 has been refused
C20_Witness ==
    /\ \E i, j \in StoredIds :
          /\ predictions[i].isResolved /\ ~predictions[i].wasAccurate
          /\ ~predictions[j].isResolved
    /\ lastCall.op = "resolvePrediction" /\ lastCall.err = "BadActualPrice"

----------------------------------------------------------------------------
(* The read routes: routes/predictions.js, routes/crypto.js                 *)
(* (unnamed/part_000) and routes/users.js (unnamed/part_001), over the      *)
(* getters of services/blockchain.js.  A listing is read in one block; its  *)
(* response is the list of the ids of the predictions it returns.           *)

\* String.prototype.toUpperCase, on the strings of the requests
toUpperCase(s) ==
    CASE s = "btc" -> "BTC" [] s = "eth" -> "ETH"
      [] s = "lstm" -> "LSTM" [] s = "rf" -> "RF" [] OTHER -> s

\* String.prototype.toLowerCase
toLowerCase(s) ==
    CASE s = "BTC" -> "btc" [] s = "ETH" -> "eth"
      [] s = "LSTM" -> "lstm" [] s = "RF" -> "rf" [] OTHER -> s

mathMax(a, b) == IF a >= b THEN a ELSE b

\* the defaults of req.query.page and req.query.limit
DefaultPage == 1

DefaultLimit == 10

\* a client's own transactions: a rising, an unchanged and a falling
\* prediction, of two accounts, assets and model types
ClientInputs ==
    {Arg("user1", "BTC", 50000, 55000, "LSTM"),
     Arg("user2", "BTC", 50000, 50000, "RF"),
     Arg("user1", "ETH", 55000, 50000, "RF")}

ClientMakePrediction ==
    /\ Idle
    /\ UNCHANGED request
    /\ \E in \in ClientInputs, offset \in TargetOffsets :
          makePrediction(in.sender, in.cryptocurrency, in.currentPrice,
                         in.predictedPrice, now + offset, in.modelType, "{}")

Query(resolved, crypto, modelType, user) ==
    [NoQuery EXCEPT !.resolved = resolved, !.crypto = crypto,
                    !.modelType = modelType, !.user = user]

\* the response of a read route
Answer(op, query, results) ==
    [NoRequest EXCEPT !.op = op, !.query = query, !.results = results]

\* the else branch of GET /api/predictions: the page of the most recent
\* ids, newest first, each read with getPrediction
recentPredictions(page, limit) ==
    LET totalCount == predictionCounter
        startId == mathMax(1, totalCount - (page * limit) + 1)
        endId == mathMax(1, totalCount - ((page - 1) * limit))
    IN [k \in 1..(endId - startId + 1) |-> predictions[endId - k + 1].id]

\* GET /api/predictions: the first of crypto, modelType and user that is
\* given selects the list; the others are not looked at
listPredictions(query) ==
    IF query.crypto # "" THEN getCryptoPredictions(query.crypto)
    ELSE IF query.modelType # "" THEN getModelTypePredictions(query.modelType)
    ELSE IF query.user # "" THEN getUserPredictions(query.user)
    ELSE recentPredictions(DefaultPage, DefaultLimit)

\* predictions.filter(p => p.isResolved === isResolved)
filterResolved(list, resolved) ==
    IF resolved # ""
    THEN SelectSeq(list, LAMBDA i : predictions[i].isResolved = (resolved = "true"))
    ELSE list

\* predictions.filter(p => p.modelType.toLowerCase() === modelType.toLowerCase())
filterModelType(list, modelType) ==
    IF modelType # ""
    THEN SelectSeq(list, LAMBDA i :
             toLowerCase(predictions[i].modelType) = toLowerCase(modelType))
    ELSE list

filterUser(list, user) ==
    IF user # ""
    THEN SelectSeq(list, LAMBDA i :
             toLowerCase(predictions[i].predictor) = toLowerCase(user))
    ELSE list

filterCrypto(list, crypto) ==
    IF crypto # ""
    THEN SelectSeq(list, LAMBDA i :
             toLowerCase(predictions[i].cryptocurrency) = toLowerCase(crypto))
    ELSE list

\* GET /api/crypto/:symbol/predictions, the symbol in query.crypto
listCryptoPredictions(query) ==
    filterUser(
        filterModelType(
            filterResolved(getCryptoPredictions(toUpperCase(query.crypto)),
                           query.resolved),
            query.modelType),
        query.user)

\* /^0x[a-fA-F0-9]{40}$/.test(address): the accounts are such addresses
validAddress(address) == address \in Addrs

\* GET /api/users/:address/predictions, the address in query.user
listUserPredictions(query) ==
    filterModelType(
        filterCrypto(
            filterResolved(getUserPredictions(query.user), query.resolved),
            query.crypto),
        query.modelType)

\* the queries of GET /api/predictions: no filter, one, two and three
ListQueries ==
    {NoQuery, Query("", "BTC", "", ""), Query("", "BTC", "RF", ""),
     Query("", "BTC", "LSTM", "user2"), Query("", "", "RF", "user1")}

\* symbols and queries of GET /api/crypto/:symbol/predictions
CryptoQueries ==
    {Query("", "BTC", "", ""), Query("true", "btc", "lstm", ""),
     Query("false", "BTC", "RF", "user2"), Query("", "ETH", "", "user1"),
     Query("no", "BTC", "LSTM", "user1")}

\* addresses and queries of GET /api/users/:address/predictions
UserQueries ==
    {Query("", "", "", "user1"), Query("true", "BTC", "", "user1"),
     Query("false", "btc", "rf", "user2"), Query("", "ETH", "LSTM", "user1"),
     Query("", "", "", "not-an-address")}

ListPredictions ==
    /\ Idle /\ request = NoRequest
    /\ \E query \in ListQueries :
          request' = Answer("GET /predictions", query, listPredictions(query))
    /\ lastCall' = ApiCall("GET /predictions", "", "ok")
    /\ UNCHANGED <<ledger, config, now, submitCount>>

ListCryptoPredictions ==
    /\ Idle /\ request = NoRequest
    /\ \E query \in CryptoQueries :
          request' = Answer("GET /crypto/:symbol/predictions", query,
                            listCryptoPredictions(query))
    /\ lastCall' = ApiCall("GET /crypto/:symbol/predictions", "", "ok")
    /\ UNCHANGED <<ledger, config, now, submitCount>>

ListUserPredictions ==
    /\ Idle /\ request = NoRequest
    /\ \E query \in UserQueries :
          IF validAddress(query.user)
          THEN /\ request' = Answer("GET /users/:address/predictions", query,
                                    listUserPredictions(query))
               /\ lastCall' = ApiCall("GET /users/:address/predictions", "", "ok")
          ELSE /\ request' = Answer("GET /users/:address/predictions", query, <<>>)
               /\ lastCall' = ApiCall("GET /users/:address/predictions", "",
                                      "ValidationError")
    /\ UNCHANGED <<ledger, config, now, submitCount>>

(* GET /api/crypto/:symbol/analysis *)

\* ethers.formatUnits(value, 18): the decimal string, as its whole and its
\* fractional part
formatUnits(value) == [whole |-> value \div Unit, frac |-> value % Unit]

\* parseFloat of a formatted price, in multiples of 1 / Unit; the prices of
\* the model are below 2^53, where the double is exact
parseFloat(decimal) == (decimal.whole * Unit) + decimal.frac

\* one day of the server's clock, in the steps of block.timestamp
Day == 1

\* the switch on timeframe
timefilterMs(timeframe) ==
    CASE timeframe = "1d" -> 1 * Day [] timeframe = "7d" -> 7 * Day
      [] timeframe = "30d" -> 30 * Day [] timeframe = "90d" -> 90 * Day
      [] OTHER -> 7 * Day

filteredPredictions(query) ==
    SelectSeq(getCryptoPredictions(toUpperCase(query.crypto)),
              LAMBDA i : (now - predictions[i].predictionTimestamp)
                            <= timefilterMs(query.timeframe))

isBullish(i) ==
    parseFloat(formatUnits(predictions[i].predictedPrice))
        > parseFloat(formatUnits(predictions[i].currentPrice))

\* the forEach over filteredPredictions: bullishCount++ or else
\* bearishCount++; bullish, bearish, neutral and summary.totalPredictions
sentiment(query) ==
    LET bullishCount == Len(SelectSeq(filteredPredictions(query),
                                      LAMBDA i : isBullish(i)))
        bearishCount == Len(SelectSeq(filteredPredictions(query),
                                      LAMBDA i : ~isBullish(i)))
    IN <<bullishCount, bearishCount,
         Len(filteredPredictions(query)) - bullishCount - bearishCount,
         Len(filteredPredictions(query))>>

\* symbols and timeframes of the analysis requests ('7d' when none is given)
AnalysisQueries ==
    {[NoQuery EXCEPT !.crypto = "BTC"],
     [NoQuery EXCEPT !.crypto = "btc", !.timeframe = "1d"],
     [NoQuery EXCEPT !.crypto = "ETH", !.timeframe = "30d"]}

CryptoAnalysis ==
    /\ Idle /\ request = NoRequest
    /\ \E query \in AnalysisQueries :
          request' = Answer("GET /crypto/:symbol/analysis", query, sentiment(query))
    /\ lastCall' = ApiCall("GET /crypto/:symbol/analysis", "", "ok")
    /\ UNCHANGED <<ledger, config, now, submitCount>>

(* GET /api/users/:address/stats *)

getUserAccuracyRate(user) ==
    IF userStats[user].totalPredictions = 0 THEN 0
    ELSE (userStats[user].accuratePredictions * BASIS_POINTS)
             \div userStats[user].totalPredictions

getUserAverageAccuracy(user) ==
    IF userStats[user].totalPredictions = 0 THEN 0
    ELSE userStats[user].totalAccuracyScore \div userStats[user].totalPredictions

\* req.params.address of the stats requests
StatsAddresses == {"user1", "not-an-address"}

\* the route and blockchainService.getUserStats: the service awaits
\* contract.userStats, then getUserAccuracyRate, then
\* getUserAverageAccuracy, three calls of their own, between which blocks
\* are mined; the response holds totalPredictions, accuratePredictions,
\* totalAccuracyScore, accuracyRate and averageAccuracy
GetUserStats ==
    /\ Idle
    /\ \/ /\ request = NoRequest
          /\ \E address \in StatsAddresses :
                IF validAddress(address)
                THEN /\ request' =
                           Answer("GET /users/:address/stats",
                                  [NoQuery EXCEPT !.user = address],
                                  <<userStats[address].totalPredictions,
                                    userStats[address].accuratePredictions,
                                    userStats[address].totalAccuracyScore>>)
                     /\ UNCHANGED lastCall
                ELSE /\ request' = Answer("GET /users/:address/stats",
                                          [NoQuery EXCEPT !.user = address], <<>>)
                     /\ lastCall' = ApiCall("GET /users/:address/stats", "",
                                            "ValidationError")
       \/ /\ request.op = "GET /users/:address/stats" /\ Len(request.results) = 3
          /\ request' = [request EXCEPT !.results =
                            Append(@, getUserAccuracyRate(request.query.user))]
          /\ UNCHANGED lastCall
       \/ /\ request.op = "GET /users/:address/stats" /\ Len(request.results) = 4
          /\ request' = [request EXCEPT !.results =
                            Append(@, getUserAverageAccuracy(request.query.user))]
          /\ lastCall' = ApiCall("GET /users/:address/stats", "", "ok")
    /\ UNCHANGED <<ledger, config, now, submitCount>>

(* The clients' transactions and the listings, with time *)

NextRead ==
    \/ ClientMakePrediction
    \/ ResolvePrediction
    \/ ListPredictions
    \/ ListCryptoPredictions
    \/ ListUserPredictions
    \/ CryptoAnalysis
    \/ GetUserStats
    \/ Tick
    \/ Receipt

SpecRead == Init /\ [][NextRead]_vars

----------------------------------------------------------------------------
(* C21: when several filters are given to a listing of predictions          *)
(* (resolved, asset, modelType, predictor), the response holds exactly the  *)
(* predictions that satisfy all of them: none that violates a given filter, *)
(* and every stored prediction that satisfies them all.  For GET            *)
(* /api/predictions with crypto, modelType and user, and for the listings   *)
(* per asset and per user.                                                  *)

\* prediction i satisfies every filter the query gives (letter case apart)
Satisfies(i, query) ==
    /\ query.resolved # "" => predictions[i].isResolved = (query.resolved = "true")
    /\ query.crypto # "" =>
          toUpperCase(predictions[i].cryptocurrency) = toUpperCase(query.crypto)
    /\ query.modelType # "" =>
          toUpperCase(predictions[i].modelType) = toUpperCase(query.modelType)
    /\ query.user # "" => predictions[i].predictor = query.user

Listings ==
    {"GET /predictions", "GET /crypto/:symbol/predictions",
     "GET /users/:address/predictions"}

FiltersGiven(query) ==
    Cardinality({f \in {"resolved", "crypto", "modelType", "user"} : query[f] # ""})

C21_FiltersAreConjunctive ==
    (request.op \in Listings /\ lastCall.err = "ok"
     /\ FiltersGiven(request.query) >= 2)
    => Elements(request.results) = {i \in StoredIds : Satisfies(i, request.query)}

----------------------------------------------------------------------------
(* C22: in the sentiment of the analysis of an asset, a prediction with     *)
(* predictedPrice > currentPrice counts as bullish, one with predictedPrice *)
(* < currentPrice as bearish, and one with predictedPrice = currentPrice as *)
(* neither: it is reported as neutral; bullish, bearish and neutral sum to  *)
(* the number of predictions classified.                                    *)

\* the predictions the analysis classifies
Classified(query) ==
    {i \in Elements(getCryptoPredictions(toUpperCase(query.crypto))) :
        (now - predictions[i].predictionTimestamp) <= timefilterMs(query.timeframe)}

C22_SentimentBuckets ==
    (request.op = "GET /crypto/:symbol/analysis" /\ lastCall.err = "ok") =>
        LET S == Classified(request.query) IN
        /\ request.results[1] =
              Cardinality({i \in S : predictions[i].predictedPrice
                                        > predictions[i].currentPrice})
        /\ request.results[2] =
              Cardinality({i \in S : predictions[i].predictedPrice
                                        < predictions[i].currentPrice})
        /\ request.results[3] =
              Cardinality({i \in S : predictions[i].predictedPrice
                                        = predictions[i].currentPrice})
        /\ request.results[1] + request.results[2] + request.results[3]
              = Cardinality(S)

----------------------------------------------------------------------------
(* C23: when several resolve requests for the same unresolved prediction    *)
(* are in flight (from the resolve route and from bulk-resolve, their       *)
(* transactions mined in any order), one of them succeeds and every other   *)
(* one gets AlreadyResolved; accuratePredictions and totalAccuracyScore of  *)
(* the predictor and of the model are incremented once, by the values of    *)
(* the call that succeeded.                                                 *)

\* the counters hold one contribution per resolved prediction, and a resolve
\* of a resolved prediction can only get AlreadyResolved
C23_CountedOnce ==
    /\ \A u \in Addrs :
          /\ userStats[u].accuratePredictions =
                Cardinality({i \in ResolvedOf(u) : predictions[i].wasAccurate})
          /\ userStats[u].totalAccuracyScore = SumScore(ResolvedOf(u))
    /\ \A m \in ModelTypes :
          /\ modelPerformance[m].accuratePredictions =
                Cardinality({i \in ResolvedWithModel(m) : predictions[i].wasAccurate})
          /\ modelPerformance[m].totalAccuracyScore = SumScore(ResolvedWithModel(m))
    /\ \A id \in Ids, actualPrice \in ApiPrices :
          (predictions[id].isResolved /\ actualPrice > 0) =>
              resolvePredictionError(Signer, id, parseUnits(actualPrice))
                  = "AlreadyResolved"

\* the step in which the transaction of a resolve request is mined
C23_CommitStep ==
    /\ (ResolveReturned /\ Idle) =>
          LET i == lastCall'.id
              before == predictions[i]
              after == predictions'[i]
              bonus == IF after.wasAccurate THEN 1 ELSE 0
          IN
          /\ ~before.isResolved /\ after.isResolved
          /\ after.accuracyPercentage =
                calculateAccuracy(before.predictedPrice, after.actualPrice)
          /\ \A j \in Ids \ {i} : predictions'[j] = predictions[j]
          /\ userStats'[before.predictor].accuratePredictions =
                userStats[before.predictor].accuratePredictions + bonus
          /\ userStats'[before.predictor].totalAccuracyScore =
                userStats[before.predictor].totalAccuracyScore
                    + after.accuracyPercentage
          /\ modelPerformance'[before.modelType].accuratePredictions =
                modelPerformance[before.modelType].accuratePredictions + bonus
          /\ modelPerformance'[before.modelType].totalAccuracyScore =
                modelPerformance[before.modelType].totalAccuracyScore
                    + after.accuracyPercentage
    /\ ResolveReverted => UNCHANGED ledger
    /\ (BulkInFlight /\ request.rest # <<>> /\ request'.rest # request.rest) =>
          LET pred == Head(request.rest) IN
          /\ (~invalidEntry(pred) /\ predictions[pred.predictionId].isResolved) =>
                /\ request'.errors =
                      Append(request.errors,
                             [predictionId |-> pred.predictionId,
                              error |-> "AlreadyResolved"])
                /\ request'.results = request.results
                /\ UNCHANGED ledger
          /\ request'.results # request.results =>
                /\ ~predictions[pred.predictionId].isResolved
                /\ predictions'[pred.predictionId].isResolved
                /\ request'.results = Append(request.results, pred.predictionId)

----------------------------------------------------------------------------
(* C24: every response of getUserStats is a snapshot of one state of the    *)
(* ledger, also when makePrediction and resolvePrediction transactions are  *)
(* mined during the read: its accuracyRate is floor(accuratePredictions *   *)
(* 10000 / totalPredictions) and its averageAccuracy is                     *)
(* floor(totalAccuracyScore / totalPredictions) of the totalPredictions,    *)
(* accuratePredictions and totalAccuracyScore of the same response (0 when  *)
(* totalPredictions is 0).                                                  *)

StatsAnswered ==
    /\ request.op = "GET /users/:address/stats"
    /\ lastCall.op = "GET /users/:address/stats" /\ lastCall.err = "ok"

C24_StatsAreSnapshot ==
    StatsAnswered =>
        LET totalPredictions == request.results[1]
            accuratePredictions == request.results[2]
            totalAccuracyScore == request.results[3]
            accuracyRate == request.results[4]
            averageAccuracy == request.results[5]
        IN
        /\ accuracyRate =
              IF totalPredictions = 0 THEN 0
              ELSE (accuratePredictions * 10000) \div totalPredictions
        /\ averageAccuracy =
              IF totalPredictions = 0 THEN 0
              ELSE totalAccuracyScore \div totalPredictions

----------------------------------------------------------------------------
(* C25: resolvePrediction checks its failure conditions in the order        *)
(* NotFound, AlreadyResolved, Unauthorized, actualPrice <= 0, TooEarly:     *)
(* when several hold for one call, the error is the first of them in this   *)
(* order (an unauthorized caller of a resolved prediction gets              *)
(* AlreadyResolved, an authorized caller with price 0 before the target     *)
(* time gets the price error); every failing resolvePrediction leaves the   *)
(* prediction, the UserStats and the ModelPerformance unchanged.            *)

\* the failure conditions that hold for a call, numbered in the order of
\* the claim
FailureConditions(sender, id, actualPrice) ==
    {k \in 1..5 :
        \/ k = 1 /\ ~(id >= 1 /\ id <= predictionCounter)
        \/ k = 2 /\ predictions[id].isResolved
        \/ k = 3 /\ sender \notin oracleRole /\ predictions[id].predictor # sender
        \/ k = 4 /\ actualPrice <= 0
        \/ k = 5 /\ now < predictions[id].targetTimestamp}

ResolveFailure(k) ==
    CASE k = 1 -> "NotFound" [] k = 2 -> "AlreadyResolved"
      [] k = 3 -> "Unauthorized" [] k = 4 -> "BadActualPrice"
      [] k = 5 -> "TooEarly"

C25_FirstFailureWins ==
    \A sender \in Addrs, id \in Ids, actualPrice \in ActualPrices :
        LET err == resolvePredictionError(sender, id, actualPrice)
            V == FailureConditions(sender, id, actualPrice)
        IN
        /\ V # {} => err = ResolveFailure(Least(V))
        /\ V = {} => err \in {"ok", "Panic"}

C25_ResolveStep ==
    ResolveReverted => UNCHANGED <<predictions, userStats, modelPerformance, ledger>>

C25_ResolveOrder == [](C25_FirstFailureWins) /\ [][C25_ResolveStep]_vars

\* a resolve with price 0 has just been refused for its price while every
\* stored prediction is unresolved and before its target time: the call
\* named a stored prediction, and was too early as well
C25_Witness ==
    /\ lastCall.op = "resolvePrediction" /\ lastCall.err = "BadActualPrice"
    /\ StoredIds # {}
    /\ \A i \in StoredIds :
          ~predictions[i].isResolved /\ now < predictions[i].targetTimestamp

----------------------------------------------------------------------------
(* C26: calculateAccuracy never raises for two positive inputs of its       *)
(* unsigned integer type: for every predictedPrice > 0 and actualPrice > 0  *)
(* of that width the product |predictedPrice - actualPrice| * 10000 stays   *)
(* within the width, so that no resolvePrediction fails because of the      *)
(* magnitude of the stored predictedPrice or of the actualPrice given.      *)

C26_NeverRaises ==
    (lastCall.op = "calculateAccuracy" /\ lastCall.x > 0 /\ lastCall.y > 0) =>
        /\ Abs(lastCall.x - lastCall.y) <= UintMax \div 10000
        /\ lastCall.err = "ok"

----------------------------------------------------------------------------
(* C27: every admin commit made through the API with a valid admin key      *)
(* (pause, unpause, oracle/grant, oracle/revoke) is either answered as a    *)
(* success, with the change applied to paused or to the oracle role, or     *)
(* answered as a failure, with both unchanged: the caller never gets an     *)
(* error response for a request that has changed paused or the oracle role. *)

CommitRoutes ==
    {"POST /pause", "POST /unpause", "POST /oracle/grant", "POST /oracle/revoke"}

\* the configuration is as the request wants it
Applied(req) ==
    CASE req.op = "POST /pause" -> paused
      [] req.op = "POST /unpause" -> ~paused
      [] req.op = "POST /oracle/grant" -> req.address \in oracleRole
      [] req.op = "POST /oracle/revoke" -> req.address \notin oracleRole

\* the transaction of the request is mined: it applies the change or
\* changes nothing
C27_CommitStep ==
    (request.op \in CommitRoutes /\ request.results = <<>>
     /\ request'.results # <<>>) =>
        IF request'.results[1] = "ok"
        THEN Applied(request)'
        ELSE UNCHANGED <<paused, oracleRole>>

\* the response is a success exactly when the transaction was
C27_ReplyStep ==
    (request.op \in CommitRoutes /\ request.results # <<>>
     /\ lastCall'.op = request.op) =>
        (lastCall'.err = "ok") = (request.results[1] = "ok")

C27_CommitReported == [][C27_CommitStep /\ C27_ReplyStep]_vars

----------------------------------------------------------------------------
(* C28: a prediction created through the service's                          *)
(* makePrediction(predictorAddress, predictionData) (POST /api/predictions  *)
(* with userAddress or predictorAddress U) is stored with predictor = U:    *)
(* its id is appended to U's list, userStats[U].totalPredictions is         *)
(* incremented, and U may resolve it as its predictor; U is the user the    *)
(* route echoes in its response.                                            *)

\* the step is the service's makePrediction for the body in, and returns
ServiceSubmits(in, offset) ==
    /\ Idle
    /\ makePrediction(Signer, in.cryptocurrency, parseUnits(in.currentPrice),
                      parseUnits(in.predictedPrice), now + offset,
                      in.modelType, "{}")
    /\ lastCall'.err = "ok"

C28_SubmitStep ==
    \A in \in ServiceInputs, offset \in TargetOffsets :
        ServiceSubmits(in, offset) =>
            LET U == in.sender
                id == lastCall'.id
            IN
            /\ predictions'[id].predictor = U
            /\ userPredictions'[U] = Append(userPredictions[U], id)
            /\ userStats'[U].totalPredictions = userStats[U].totalPredictions + 1
            \* U is authorized by predictions[id].predictor == msg.sender
            /\ U \notin oracleRole => predictions'[id].predictor = U

C28_PredictorIsUser == [][C28_SubmitStep]_vars

----------------------------------------------------------------------------
(* C29: setAccuracyThreshold changes accuracyThreshold only: every stored   *)
(* prediction (the wasAccurate and accuracyPercentage of the resolved ones  *)
(* in particular), every UserStats and ModelPerformance counter,            *)
(* predictionCounter, paused and the oracle role stay as they are, so a     *)
(* prediction resolved earlier is not evaluated again against the new       *)
(* threshold; only resolves made after the change use it.                   *)

C29_SetStep ==
    (lastCall'.op = "setAccuracyThreshold" /\ lastCall' # lastCall) =>
        /\ UNCHANGED <<predictions, userStats, modelPerformance, predictionCounter,
                       paused, oracleRole, adminRole>>
        /\ UNCHANGED ledger
        /\ lastCall'.err = "ok" => accuracyThreshold' = lastCall'.y

C29_ResolveStep ==
    (ResolveReturned /\ Idle) =>
        LET after == predictions'[lastCall'.id] IN
        /\ after.wasAccurate =
              (after.accuracyPercentage >= 10000 - accuracyThreshold)
        /\ accuracyThreshold' = accuracyThreshold

C29_ThresholdFrame == [][C29_SetStep /\ C29_ResolveStep]_vars

\* two resolved predictions with the same score, the one resolved before a
\* change of the threshold accurate, the one resolved just now, under the
\* changed threshold, not
C29_Witness ==
    /\ lastCall.op = "resolvePrediction" /\ lastCall.err = "ok"
    /\ accuracyThreshold # DefaultAccuracyThreshold
    /\ ~predictions[lastCall.id].wasAccurate
    /\ \E i \in StoredIds :
          /\ predictions[i].isResolved /\ predictions[i].wasAccurate
          /\ predictions[i].accuracyPercentage
                = predictions[lastCall.id].accuracyPercentage
          /\ ~isAccurate(predictions[i].accuracyPercentage, accuracyThreshold)

----------------------------------------------------------------------------
(* C30: in every reachable state and for every account u, the sum over the  *)
(* model types of getUserModelTypeCount(u, m), the sum over the             *)
(* cryptocurrencies of getUserCryptoCount(u, c), the length of              *)
(* getUserPredictions(u) and userStats[u].totalPredictions are equal; the   *)
(* sum of userStats[u].totalPredictions over the accounts equals the sum of *)
(* modelPerformance[m].totalPredictions over the model types, which equals  *)
(* predictionCounter; the count of a model type or cryptocurrency the       *)
(* account never used is 0.                                                 *)

RECURSIVE SumOver(_, _)
SumOver(f, S) ==
    IF S = {} THEN 0
    ELSE LET k == CHOOSE j \in S : TRUE IN f[k] + SumOver(f, S \ {k})

C30_CountsAgree ==
    /\ \A u \in Addrs :
          /\ SumOver([m \in ModelTypes |-> getUserModelTypeCount(u, m)], ModelTypes)
                = userStats[u].totalPredictions
          /\ SumOver([c \in Cryptos |-> getUserCryptoCount(u, c)], Cryptos)
                = userStats[u].totalPredictions
          /\ Len(getUserPredictions(u)) = userStats[u].totalPredictions
          /\ \A m \in ModelTypes :
                (\A i \in PredictionsOf(u) : predictions[i].modelType # m)
                    => getUserModelTypeCount(u, m) = 0
          /\ \A c \in Cryptos :
                (\A i \in PredictionsOf(u) : predictions[i].cryptocurrency # c)
                    => getUserCryptoCount(u, c) = 0
    /\ SumOver([u \in Addrs |-> userStats[u].totalPredictions], Addrs)
          = predictionCounter
    /\ SumOver([m \in ModelTypes |-> modelPerformance[m].totalPredictions], ModelTypes)
          = predictionCounter

\* an account has just made its second prediction, of another model type
\* and cryptocurrency than its first, next to an account that made none
C30_Witness ==
    /\ lastCall.op = "makePrediction" /\ lastCall.err = "ok"
    /\ \E u \in Addrs :
          /\ lastCall.sender = u
          /\ userStats[u].totalPredictions = 2
          /\ \E m1, m2 \in ModelTypes :
                m1 # m2 /\ getUserModelTypeCount(u, m1) = 1
                        /\ getUserModelTypeCount(u, m2) = 1
          /\ \E c1, c2 \in Cryptos :
                c1 # c2 /\ getUserCryptoCount(u, c1) = 1
                        /\ getUserCryptoCount(u, c2) = 1
    /\ \E v \in Addrs : userStats[v].totalPredictions = 0

====
